---- MODULE Spec2Model ----
(***************************************************************************)
(* A model of src/model/train_nmt.py: the data split of get_data, the      *)
(* batch loop of train, the decode loop of infer_nmt, the assertion of     *)
(* plot_attention_weights and the main script that runs them in order.     *)
(*                                                                         *)
(* A sentence is a sequence of one-character strings; a word is a sentence *)
(* without blanks.  Python indices are kept 0-based as values (inds, bi);  *)
(* a TLA+ sequence s holds Python's s[k] at s[k + 1].                      *)
(***************************************************************************)
EXTENDS Integers, Sequences, FiniteSets, TLC

(***************************************************************************)
(* Bounds of the model.                                                    *)
(***************************************************************************)
MaxSentLen == 4
MaxCorpus == 4
MaxSeed == 1

(***************************************************************************)
(* Strings.                                                                *)
(***************************************************************************)
Alphabet == {"a", " ", "."}

SeqsUpTo(S, n) == UNION {[1..k -> S] : k \in 0..n}

SOS == <<"s", "o", "s">>
EOS == <<"e", "o", "s">>

\* Python's str.endswith('.')
EndsWithDot(sent) == Len(sent) > 0 /\ sent[Len(sent)] = "."

\* Python's sent[:-1]
DropLast(sent) == IF Len(sent) = 0 THEN sent ELSE SubSeq(sent, 1, Len(sent) - 1)

\* Whitespace split (str.split()): maximal runs of non-blank characters.
RECURSIVE SplitAcc(_, _, _)
SplitAcc(s, cur, acc) ==
    IF s = <<>>
    THEN IF cur = <<>> THEN acc ELSE Append(acc, cur)
    ELSE IF Head(s) = " "
         THEN SplitAcc(Tail(s), <<>>, IF cur = <<>> THEN acc ELSE Append(acc, cur))
         ELSE SplitAcc(Tail(s), Append(cur, Head(s)), acc)

Split(s) == SplitAcc(s, <<>>, <<>>)

\* get_data, line 24: the French sentence between its start and end markers.
WrapSosEos(sent) ==
    IF EndsWithDot(sent)
    THEN SOS \o <<" ">> \o DropLast(sent) \o EOS \o <<" ", ".">>
    ELSE SOS \o <<" ">> \o sent \o <<" ">> \o EOS \o <<" ", ".">>

(***************************************************************************)
(* numpy's global generator: np.random.seed sets its state, and            *)
(* np.random.shuffle draws from it (a Fisher-Yates shuffle from the last   *)
(* position down) and leaves it advanced.                                  *)
(***************************************************************************)
RngMod == 16

RngSeed(random_seed) == random_seed % RngMod

RngNext(r) == (5 * r + 3) % RngMod

Swap(s, i, j) == [s EXCEPT ![i] = s[j], ![j] = s[i]]

\* positions i = n, n-1, .., 2 of the 1-based sequence; the draw picks 1..i
RECURSIVE ShuffleFrom(_, _, _)
ShuffleFrom(s, i, r) ==
    IF i <= 1
    THEN [inds |-> s, rng |-> r]
    ELSE LET r2 == RngNext(r)
             j  == ((r2 \div 2) % i) + 1
         IN  ShuffleFrom(Swap(s, i, j), i - 1, r2)

Shuffle(s, r) == ShuffleFrom(s, Len(s), r)

\* np.arange(n)
Arange(n) == [k \in 1..n |-> k - 1]

Min(a, b) == IF a <= b THEN a ELSE b

\* s[:k] and s[k:] for k >= 0
SliceTo(s, k) == SubSeq(s, 1, Min(k, Len(s)))
SliceFrom(s, k) == SubSeq(s, Min(k, Len(s)) + 1, Len(s))

\* [text[ti] for ti in inds]
Gather(text, inds) == [k \in 1..Len(inds) |-> text[inds[k] + 1]]

\* get_data, lines 20-38, with the state r it finds the generator in
get_data_noseed(en_text, fr_text_raw, train_size, random_seed, r) ==
    LET fr_text == [k \in 1..Len(fr_text_raw) |-> WrapSosEos(fr_text_raw[k])]
        sh == Shuffle(Arange(Len(en_text)), r)
        train_inds == SliceTo(sh.inds, train_size)
        test_inds == SliceFrom(sh.inds, train_size)
    IN  [tr_en_text |-> Gather(en_text, train_inds),
         tr_fr_text |-> Gather(fr_text, train_inds),
         ts_en_text |-> Gather(en_text, test_inds),
         ts_fr_text |-> Gather(fr_text, test_inds),
         train_inds |-> train_inds,
         test_inds |-> test_inds,
         rng |-> sh.rng]

get_data(en_text, fr_text_raw, train_size, random_seed, r) ==
    LET fr_text == [k \in 1..Len(fr_text_raw) |-> WrapSosEos(fr_text_raw[k])]
        sh == Shuffle(Arange(Len(en_text)), RngSeed(random_seed))
        train_inds == SliceTo(sh.inds, train_size)
        test_inds == SliceFrom(sh.inds, train_size)
    IN  [tr_en_text |-> Gather(en_text, train_inds),
         tr_fr_text |-> Gather(fr_text, train_inds),
         ts_en_text |-> Gather(en_text, test_inds),
         ts_fr_text |-> Gather(fr_text, test_inds),
         train_inds |-> train_inds,
         test_inds |-> test_inds,
         rng |-> sh.rng]

(***************************************************************************)
(* keras.preprocessing.text.Tokenizer(oov_token='UNK').                    *)
(***************************************************************************)
UNK == <<"U", "N", "K">>

LowerChar(c) ==
    CASE c = "U" -> "u"
      [] c = "N" -> "n"
      [] c = "K" -> "k"
      [] OTHER -> c

\* the default filters hold '.', and a filtered character becomes the split blank
FilterChar(c) == IF c = "." THEN " " ELSE c

\* text_to_word_sequence: lower, filter, split on blanks, drop empty words
TextToWords(text) == Split([k \in 1..Len(text) |-> FilterChar(LowerChar(text[k]))])

RECURSIVE Flatten(_)
Flatten(ss) == IF ss = <<>> THEN <<>> ELSE Head(ss) \o Flatten(Tail(ss))

InSeq(x, s) == \E k \in 1..Len(s) : s[k] = x

RECURSIVE DedupAcc(_, _)
DedupAcc(s, acc) ==
    IF s = <<>> THEN acc
    ELSE DedupAcc(Tail(s), IF InSeq(Head(s), acc) THEN acc ELSE Append(acc, Head(s)))

Count(x, s) == Cardinality({k \in 1..Len(s) : s[k] = x})

\* wcounts.sort(key=count, reverse=True): stable, ties keep first-seen order
RECURSIVE SortByCountAcc(_, _, _)
SortByCountAcc(todo, all, acc) ==
    IF todo = <<>> THEN acc
    ELSE LET w == Head(todo)
             ahead == Cardinality({k \in 1..Len(acc) : Count(acc[k], all) >= Count(w, all)})
         IN  SortByCountAcc(Tail(todo), all,
                SubSeq(acc, 1, ahead) \o <<w>> \o SubSeq(acc, ahead + 1, Len(acc)))

\* fit_on_texts: word_index maps the oov token to 1 and the words, most
\* frequent first, to 2, 3, ..
fit_on_texts(texts) ==
    LET all == Flatten([k \in 1..Len(texts) |-> TextToWords(texts[k])])
        sorted_voc == <<UNK>> \o SortByCountAcc(DedupAcc(all, <<>>), all, <<>>)
    IN  [w \in {sorted_voc[k] : k \in 1..Len(sorted_voc)} |->
            CHOOSE k \in 1..Len(sorted_voc) : sorted_voc[k] = w]

\* texts_to_sequences for one text: unknown words get the oov token's index
text_to_sequence(word_index, text) ==
    LET ws == TextToWords(text)
    IN  [k \in 1..Len(ws) |->
            IF ws[k] \in DOMAIN word_index THEN word_index[ws[k]] ELSE word_index[UNK]]

MaxOf(S) == CHOOSE m \in S : \A x \in S : x <= m

Zeros(n) == [k \in 1..n |-> 0]

Reverse(s) == [k \in 1..Len(s) |-> s[Len(s) + 1 - k]]

\* pad_sequences(maxlen, padding, truncating='pre') for one row
PadRow(row, maxlen, padding_type) ==
    LET cut == IF Len(row) > maxlen THEN SubSeq(row, Len(row) - maxlen + 1, Len(row)) ELSE row
        fill == Zeros(maxlen - Len(cut))
    IN  IF padding_type = "pre" THEN fill \o cut ELSE cut \o fill

\* utils.data_helper.sents2sequences(tokenizer, sentences, reverse, pad_length,
\* padding_type): pad_length 0 stands for None (pad to the longest row);
\* reverse is the truth value of the third positional argument.
sents2sequences(word_index, sentences, reverse, pad_length, padding_type) ==
    LET rows == [k \in 1..Len(sentences) |-> text_to_sequence(word_index, sentences[k])]
        maxlen == IF pad_length # 0 THEN pad_length
                  ELSE IF rows = <<>> THEN 0
                  ELSE MaxOf({Len(rows[k]) : k \in 1..Len(rows)})
        padded == [k \in 1..Len(rows) |-> PadRow(rows[k], maxlen, padding_type)]
    IN  IF reverse THEN [k \in 1..Len(padded) |-> Reverse(padded[k])] ELSE padded

\* dict(zip(word_index.values(), word_index.keys()))
index2word(word_index) ==
    [i \in {word_index[w] : w \in DOMAIN word_index} |->
        CHOOSE w \in DOMAIN word_index : word_index[w] = i]

\* max(tokenizer.index_word.keys()) + 1
vsize(word_index) == MaxOf({word_index[w] : w \in DOMAIN word_index}) + 1

\* to_categorical of one index
to_categorical(ind, num_classes) == [k \in 1..num_classes |-> IF k - 1 = ind THEN 1 ELSE 0]

\* np.argmax: the first position holding the maximum, 0-based
argmax(v) == (CHOOSE k \in 1..Len(v) : /\ \A j \in 1..Len(v) : v[j] <= v[k]
                                       /\ \A j \in 1..(k - 1) : v[j] < v[k]) - 1

(***************************************************************************)
(* The networks built by model.nmt.define_nmt share one set of weights.    *)
(* predict is a function of the weights and of its inputs: the hidden      *)
(* states range over 0..StateMod-1 and the logits over 0..LogitMod-1.      *)
(***************************************************************************)
MaxWeights == 3
StateMod == 5
LogitMod == 7

RECURSIVE SumSeq(_)
SumSeq(s) == IF s = <<>> THEN 0 ELSE Head(s) + SumSeq(Tail(s))

\* encoder_model.predict(test_en_onehot_seq) -> enc_outs, enc_last_state
encoder_predict(w, en_onehot_seq) ==
    LET x == SumSeq([k \in 1..Len(en_onehot_seq) |-> argmax(en_onehot_seq[k])])
    IN  [enc_outs |-> (2 * w + x) % StateMod,
         enc_last_state |-> (w + x) % StateMod]

\* decoder_model.predict([enc_outs, dec_state, fr_onehot]) -> dec_out, attention, dec_state
decoder_predict(w, enc_outs, dec_state, fr_onehot) ==
    LET inp == argmax(fr_onehot)
        st  == (dec_state + inp + w) % StateMod
    IN  [dec_out |-> [k \in 1..Len(fr_onehot) |->
                        IF w = 0 THEN (IF k = 1 THEN 0 ELSE 1 + ((k * (st + 1) + inp) % LogitMod))
                        ELSE ((k + w) * (st + enc_outs + 1) + inp) % LogitMod],
         attention |-> <<enc_outs, dec_state, inp>>,
         dec_state |-> st]

\* the weights after train_on_batch on rows lo..hi-1
train_on_batch(w, lo, hi) == (w + hi - lo) % (MaxWeights + 1)

\* full_model.evaluate on the batch
evaluate(w, lo, hi) == w + lo

(***************************************************************************)
(* Hyperparameters of the main script and loop ranges.                     *)
(***************************************************************************)
en_timesteps == 20
fr_timesteps == 20
DecodeSteps == 20
default_random_seed == 100

MaxBatch == 2
MaxEpochs == 2
MaxMainCorpus == 6

\* for ep in range(n_epochs)
EpochRangeShort(ep, n) == ep < n - 1
EpochRange(ep, n) == ep < n

\* for bi in range(0, en_seq.shape[0] - batch_size, batch_size)
BatchRangeToEnd(bi, nrows, bsz) == bi < nrows
BatchRange(bi, nrows, bsz) == bi < nrows - bsz

\* for i in range(20)
DecodeRangeLong(k) == k <= DecodeSteps
DecodeRange(k) == k < DecodeSteps

\* seq[lo:hi, :] keeps the rows that exist
RowsTaken(nrows, lo, hi) == Min(hi, nrows) - Min(lo, nrows)

(***************************************************************************)
(* The parallel corpus read by read_data: English and French lines.        *)
(***************************************************************************)
RESULTS_DIR == "../results"
ATTENTION_PNG == "../results/attention.png"
MODELS_DIR == "../h5.models"
NMT_H5 == "../h5.models/nmt.h5"

\* a corpus repeats these parallel lines, from any of them on
ParallelLines ==
    << [en |-> <<"a", " ", ".">>, fr |-> <<"c", " ", ".">>],
       [en |-> <<"b", " ", "a", " ", ".">>, fr |-> <<"d", " ", "c", " ", ".">>],
       [en |-> <<"a", " ", "b">>, fr |-> <<"c", " ", "d">>] >>

CorpusLine(first, k) == ParallelLines[((first + k) % Len(ParallelLines)) + 1]

\* the disk before the run: a fresh checkout, or what an earlier run left
FreshDisk == {}
AfterFailedRun == {MODELS_DIR, NMT_H5}
AfterRun == {MODELS_DIR, NMT_H5, RESULTS_DIR, ATTENTION_PNG}


VARIABLES
    w_sent,      \* a French sentence handed to line 24
    w_out,       \* the wrapped sentence
    w_done,      \* line 24 has run
    en_corpus,   \* lines of data/small_vocab_en.txt
    fr_corpus,   \* lines of data/small_vocab_fr.txt
    rng,         \* state of numpy's global generator
    gd_calls,    \* the last two get_data calls: [train_size, random_seed, out]
    pc,          \* position of the main script
    bound,       \* module-level names bound so far
    trace,       \* the stages called so far, in order
    fs,          \* paths that exist on disk
    train_size, batch_size, n_epochs,
    split,       \* get_data's result: tr_en_text, tr_fr_text, ts_en_text, ts_fr_text
    en_tokenizer, fr_tokenizer,      \* word_index of each tokenizer
    en_seq, fr_seq, en_vsize, fr_vsize,
    weights,     \* of full_model, infer_enc_model and infer_dec_model
    ep, bi, losses,                  \* locals of train
    calls,       \* train_on_batch and evaluate calls made, in order
    reports,     \* "Loss in epoch" lines printed
    en_index2word, fr_index2word, test_en_seq,
    i, enc_outs, dec_state, test_fr_onehot_seq, attention_weights, fr_text,  \* locals of infer_nmt
    enc_calls,   \* encoder_model.predict calls made
    dec_log,     \* decoder_model.predict calls made: inputs and outputs
    result       \* test_fr, attn_weights of the main script

wrapVars == <<w_sent, w_out, w_done>>
dataVars == <<en_corpus, fr_corpus, rng, gd_calls>>
hyperVars == <<train_size, batch_size, n_epochs>>
prepVars == <<split, en_tokenizer, fr_tokenizer, en_seq, fr_seq, en_vsize, fr_vsize>>
trainVars == <<weights, ep, bi, losses, calls, reports>>
lookupVars == <<en_index2word, fr_index2word, test_en_seq>>
inferVars == <<i, enc_outs, dec_state, test_fr_onehot_seq, attention_weights, fr_text,
               enc_calls, dec_log, result>>
mainVars == <<pc, bound, trace, fs, hyperVars, prepVars, trainVars, lookupVars, inferVars>>
vars == <<wrapVars, dataVars, mainVars>>

NoSplit == [tr_en_text |-> <<>>, tr_fr_text |-> <<>>, ts_en_text |-> <<>>, ts_fr_text |-> <<>>,
            train_inds |-> <<>>, test_inds |-> <<>>, rng |-> 0]
NoResult == [test_fr |-> <<>>, attn_weights |-> <<>>]

\* the main script's names before its first statement
MainUnbound ==
    /\ bound = {}
    /\ trace = <<>>
    /\ split = NoSplit
    /\ en_tokenizer = <<>> /\ fr_tokenizer = <<>>
    /\ en_seq = <<>> /\ fr_seq = <<>> /\ en_vsize = 0 /\ fr_vsize = 0
    /\ weights = 0 /\ ep = 0 /\ bi = 0 /\ losses = <<>> /\ calls = <<>> /\ reports = <<>>
    /\ en_index2word = <<>> /\ fr_index2word = <<>> /\ test_en_seq = <<>>
    /\ i = 0 /\ enc_outs = 0 /\ dec_state = 0 /\ test_fr_onehot_seq = <<>>
    /\ attention_weights = <<>> /\ fr_text = <<>> /\ enc_calls = 0 /\ dec_log = <<>>
    /\ result = NoResult

MainIdle ==
    /\ pc = "idle" /\ fs = {}
    /\ train_size = 0 /\ batch_size = 0 /\ n_epochs = 0
    /\ MainUnbound

(***************************************************************************)
(* SpecWrap: line 24 applied to one sentence.                              *)
(***************************************************************************)
InitWrap ==
    /\ w_sent \in SeqsUpTo(Alphabet, MaxSentLen)
    /\ w_out = <<>>
    /\ w_done = FALSE
    /\ en_corpus = <<>>
    /\ fr_corpus = <<>>
    /\ rng = 0
    /\ gd_calls = <<>>
    /\ MainIdle

ApplyWrap ==
    /\ ~w_done
    /\ w_out' = WrapSosEos(w_sent)
    /\ w_done' = TRUE
    /\ UNCHANGED <<w_sent, dataVars, mainVars>>

NextWrap == ApplyWrap

SpecWrap == InitWrap /\ [][NextWrap]_vars

(***************************************************************************)
(* SpecGetData: get_data called on a corpus, again and again.              *)
(***************************************************************************)
InitGetData ==
    /\ \E n \in 0..MaxCorpus, first \in 1..Len(ParallelLines) :
          /\ en_corpus = [k \in 1..n |-> CorpusLine(first, k).en]
          /\ fr_corpus = [k \in 1..n |-> CorpusLine(first, k).fr]
    /\ rng \in 0..(RngMod - 1)
    /\ gd_calls = <<>>
    /\ w_sent = <<>>
    /\ w_out = <<>>
    /\ w_done = FALSE
    /\ MainIdle

CallGetData ==
    /\ \E tsz \in 0..(MaxCorpus + 1), random_seed \in 0..MaxSeed :
          LET out == get_data(en_corpus, fr_corpus, tsz, random_seed, rng)
              call == [train_size |-> tsz, random_seed |-> random_seed, out |-> out]
          IN  /\ rng' = out.rng
              /\ gd_calls' = IF Len(gd_calls) < 2 THEN Append(gd_calls, call)
                             ELSE <<gd_calls[2], call>>
    /\ UNCHANGED <<en_corpus, fr_corpus, wrapVars, mainVars>>

NextGetData == CallGetData

SpecGetData == InitGetData /\ [][NextGetData]_vars

(***************************************************************************)
(* Bodies of train, infer_nmt and plot_attention_weights as operators on   *)
(* their locals.                                                           *)
(***************************************************************************)
\* lines 61-67: the framework calls of one batch, in call order
batch_calls(e, lo, hi, en_rows, fr_rows) ==
    << [op |-> "train_on_batch", ep |-> e, lo |-> lo, hi |-> hi,
        en_rows |-> en_rows, fr_rows |-> fr_rows],
       [op |-> "evaluate", ep |-> e, lo |-> lo, hi |-> hi,
        en_rows |-> en_rows, fr_rows |-> fr_rows] >>

\* lines 85/100 and 87/101: the decoder input for one word
encode_word(word_index, word, num_classes) ==
    LET row == sents2sequences(word_index, <<word>>, num_classes # 0, 0, "post")[1]
    IN  [k \in 1..Len(row) |-> to_categorical(row[k], num_classes)]

\* lines 95-104: one pass of the decode loop over the locals L
infer_step_stale(w, word_index, i2w, num_classes, L) ==
    LET out == decoder_predict(w, L.enc_outs, L.dec_state, L.onehot[1])
        dec_ind == argmax(out.dec_out)
        call == [enc_outs |-> L.enc_outs, dec_state_in |-> L.dec_state, onehot |-> L.onehot,
                 dec_ind |-> dec_ind, attention |-> out.attention, dec_state_out |-> out.dec_state]
    IN  IF dec_ind = 0
        THEN [brk |-> TRUE, call |-> call, L |-> L]
        ELSE [brk |-> FALSE, call |-> call,
              L |-> [L EXCEPT !.onehot = encode_word(word_index, i2w[dec_ind], num_classes),
                               !.attention_weights = Append(@, <<dec_ind, out.attention>>),
                               !.fr_text = @ \o i2w[dec_ind] \o <<" ">>]]

infer_step_late(w, word_index, i2w, num_classes, L) ==
    LET out == decoder_predict(w, L.enc_outs, L.dec_state, L.onehot[1])
        dec_ind == argmax(out.dec_out)
        call == [enc_outs |-> L.enc_outs, dec_state_in |-> L.dec_state, onehot |-> L.onehot,
                 dec_ind |-> dec_ind, attention |-> out.attention, dec_state_out |-> out.dec_state]
    IN  IF dec_ind = 0
        THEN [brk |-> TRUE, call |-> call,
              L |-> [L EXCEPT !.dec_state = out.dec_state,
                               !.attention_weights = Append(@, <<dec_ind, out.attention>>)]]
        ELSE [brk |-> FALSE, call |-> call,
              L |-> [L EXCEPT !.dec_state = out.dec_state,
                               !.onehot = encode_word(word_index, i2w[dec_ind], num_classes),
                               !.attention_weights = Append(@, <<dec_ind, out.attention>>),
                               !.fr_text = @ \o i2w[dec_ind] \o <<" ">>]]

infer_step(w, word_index, i2w, num_classes, L) ==
    LET out == decoder_predict(w, L.enc_outs, L.dec_state, L.onehot[1])
        dec_ind == argmax(out.dec_out)
        call == [enc_outs |-> L.enc_outs, dec_state_in |-> L.dec_state, onehot |-> L.onehot,
                 dec_ind |-> dec_ind, attention |-> out.attention, dec_state_out |-> out.dec_state]
    IN  IF dec_ind = 0
        THEN [brk |-> TRUE, call |-> call, L |-> [L EXCEPT !.dec_state = out.dec_state]]
        ELSE [brk |-> FALSE, call |-> call,
              L |-> [L EXCEPT !.dec_state = out.dec_state,
                               !.onehot = encode_word(word_index, i2w[dec_ind], num_classes),
                               !.attention_weights = Append(@, <<dec_ind, out.attention>>),
                               !.fr_text = @ \o i2w[dec_ind] \o <<" ">>]]

\* lines 119-143: the assertion, then the figure saved under ../results
plot_attention_weights_mkdir_first(attn, files) ==
    IF Len(attn) # 0
    THEN [ok |-> TRUE, fs |-> files \cup {RESULTS_DIR, ATTENTION_PNG}]
    ELSE [ok |-> FALSE, fs |-> files \cup {RESULTS_DIR}]

plot_attention_weights(attn, files) ==
    IF Len(attn) # 0
    THEN [ok |-> TRUE, fs |-> files \cup {RESULTS_DIR, ATTENTION_PNG}]
    ELSE [ok |-> FALSE, fs |-> files]

(***************************************************************************)
(* Spec: the main script.                                                  *)
(***************************************************************************)
Init ==
    /\ \E n \in 2..MaxMainCorpus, first \in 1..Len(ParallelLines) :
          /\ en_corpus = [k \in 1..n |-> CorpusLine(first, k).en]
          /\ fr_corpus = [k \in 1..n |-> CorpusLine(first, k).fr]
    /\ train_size \in 1..(Len(en_corpus) - 1)
    /\ batch_size \in 1..MaxBatch
    /\ n_epochs \in 0..MaxEpochs
    /\ fs \in {FreshDisk, AfterFailedRun, AfterRun}
    /\ rng = 0
    /\ gd_calls = <<>>
    /\ w_sent = <<>> /\ w_out = <<>> /\ w_done = FALSE
    /\ pc = "get_data"
    /\ MainUnbound

\* an exception ends the script where it is raised
Raise(err) ==
    /\ pc' = err
    /\ UNCHANGED <<wrapVars, dataVars, bound, trace, fs, hyperVars, prepVars, trainVars,
                   lookupVars, inferVars>>

\* line 154
MainGetData ==
    /\ pc = "get_data"
    /\ LET out == get_data(en_corpus, fr_corpus, train_size, default_random_seed, rng)
       IN  /\ split' = out
           /\ rng' = out.rng
    /\ bound' = bound \cup {"tr_en_text", "tr_fr_text", "ts_en_text", "ts_fr_text"}
    /\ trace' = Append(trace, "get_data")
    /\ pc' = "fit_en"
    /\ UNCHANGED <<en_corpus, fr_corpus, gd_calls, wrapVars, fs, hyperVars, en_tokenizer,
                   fr_tokenizer, en_seq, fr_seq, en_vsize, fr_vsize, trainVars, lookupVars,
                   inferVars>>

\* lines 157-158
MainFitEn ==
    /\ pc = "fit_en"
    /\ en_tokenizer' = fit_on_texts(split.tr_en_text)
    /\ bound' = bound \cup {"en_tokenizer"}
    /\ trace' = Append(trace, "fit_on_texts")
    /\ pc' = "fit_fr"
    /\ UNCHANGED <<wrapVars, dataVars, fs, hyperVars, split, fr_tokenizer, en_seq, fr_seq,
                   en_vsize, fr_vsize, trainVars, lookupVars, inferVars>>

\* lines 160-161
MainFitFr ==
    /\ pc = "fit_fr"
    /\ fr_tokenizer' = fit_on_texts(split.tr_fr_text)
    /\ bound' = bound \cup {"fr_tokenizer"}
    /\ trace' = Append(trace, "fit_on_texts")
    /\ pc' = "preprocess_data"
    /\ UNCHANGED <<wrapVars, dataVars, fs, hyperVars, split, en_tokenizer, en_seq, fr_seq,
                   en_vsize, fr_vsize, trainVars, lookupVars, inferVars>>

\* line 164, preprocess_data lines 44-51
MainPreprocess ==
    /\ pc = "preprocess_data"
    /\ en_seq' = sents2sequences(en_tokenizer, split.tr_en_text, FALSE, en_timesteps, "pre")
    /\ fr_seq' = sents2sequences(fr_tokenizer, split.tr_fr_text, FALSE, fr_timesteps, "post")
    /\ bound' = bound \cup {"en_seq", "fr_seq"}
    /\ trace' = Append(trace, "preprocess_data")
    /\ pc' = "vsize"
    /\ UNCHANGED <<wrapVars, dataVars, fs, hyperVars, split, en_tokenizer, fr_tokenizer,
                   en_vsize, fr_vsize, trainVars, lookupVars, inferVars>>

\* lines 166-167
MainVsizeEnOnly ==
    /\ pc = "vsize"
    /\ en_vsize' = vsize(en_tokenizer)
    /\ bound' = bound \cup {"en_vsize"}
    /\ pc' = "define_nmt"
    /\ UNCHANGED <<wrapVars, dataVars, trace, fs, hyperVars, split, en_tokenizer, fr_tokenizer,
                   en_seq, fr_seq, fr_vsize, trainVars, lookupVars, inferVars>>

MainVsize ==
    /\ pc = "vsize"
    /\ en_vsize' = vsize(en_tokenizer)
    /\ fr_vsize' = vsize(fr_tokenizer)
    /\ bound' = bound \cup {"en_vsize", "fr_vsize"}
    /\ pc' = "define_nmt"
    /\ UNCHANGED <<wrapVars, dataVars, trace, fs, hyperVars, split, en_tokenizer, fr_tokenizer,
                   en_seq, fr_seq, trainVars, lookupVars, inferVars>>

\* lines 170-173: the weights start at the initializer's draw
MainDefineNmt ==
    /\ pc = "define_nmt"
    /\ IF {"en_vsize", "fr_vsize"} \subseteq bound
       THEN /\ weights' \in 0..MaxWeights
            /\ bound' = bound \cup {"full_model", "infer_enc_model", "infer_dec_model"}
            /\ trace' = Append(trace, "define_nmt")
            /\ pc' = "call_train"
            /\ UNCHANGED <<wrapVars, dataVars, fs, hyperVars, prepVars, ep, bi, losses, calls,
                           reports, lookupVars, inferVars>>
       ELSE Raise("NameError")

\* lines 175-176: train is entered
MainCallTrain ==
    /\ pc = "call_train"
    /\ bound' = bound \cup {"n_epochs"}
    /\ trace' = Append(trace, "train")
    /\ ep' = 0
    /\ pc' = "train_epoch"
    /\ UNCHANGED <<wrapVars, dataVars, fs, hyperVars, prepVars, weights, bi, losses, calls,
                   reports, lookupVars, inferVars>>

\* lines 57-58: the next epoch starts, or train returns
TrainEpochStart ==
    /\ pc = "train_epoch"
    /\ IF EpochRange(ep, n_epochs)
       THEN /\ losses' = <<>>
            /\ bi' = 0
            /\ pc' = "train_batch"
       ELSE /\ pc' = "save"
            /\ UNCHANGED <<losses, bi>>
    /\ UNCHANGED <<wrapVars, dataVars, bound, trace, fs, hyperVars, prepVars, weights, ep,
                   calls, reports, lookupVars, inferVars>>

\* lines 59-69: one batch
TrainBatch ==
    /\ pc = "train_batch"
    /\ BatchRange(bi, Len(en_seq), batch_size)
    /\ IF {"en_vsize", "fr_vsize"} \subseteq bound
       THEN LET lo == bi
                hi == bi + batch_size
                w2 == train_on_batch(weights, lo, hi)
            IN  /\ calls' = calls \o batch_calls(ep, lo, hi, RowsTaken(Len(en_seq), lo, hi),
                                                 RowsTaken(Len(fr_seq), lo, hi))
                /\ weights' = w2
                /\ losses' = Append(losses, evaluate(w2, lo, hi))
                /\ bi' = bi + batch_size
                /\ UNCHANGED <<wrapVars, dataVars, pc, bound, trace, fs, hyperVars, prepVars,
                               ep, reports, lookupVars, inferVars>>
       ELSE Raise("NameError")

\* lines 70-71: the batches of the epoch are done
TrainEpochEnd ==
    /\ pc = "train_batch"
    /\ ~BatchRange(bi, Len(en_seq), batch_size)
    /\ reports' = IF (ep + 1) % 1 = 0
                  THEN Append(reports, [epoch |-> ep + 1, losses |-> losses])
                  ELSE reports
    /\ ep' = ep + 1
    /\ pc' = "train_epoch"
    /\ UNCHANGED <<wrapVars, dataVars, bound, trace, fs, hyperVars, prepVars, weights, bi,
                   losses, calls, lookupVars, inferVars>>

\* lines 179-181
MainSave ==
    /\ pc = "save"
    /\ fs' = fs \cup {MODELS_DIR, NMT_H5}
    /\ trace' = Append(trace, "save")
    /\ pc' = "index2word"
    /\ UNCHANGED <<wrapVars, dataVars, bound, hyperVars, prepVars, trainVars, lookupVars,
                   inferVars>>

\* lines 184-185
MainIndex2Word ==
    /\ pc = "index2word"
    /\ en_index2word' = index2word(en_tokenizer)
    /\ fr_index2word' = index2word(fr_tokenizer)
    /\ bound' = bound \cup {"en_index2word", "fr_index2word"}
    /\ pc' = "test_seq"
    /\ UNCHANGED <<wrapVars, dataVars, trace, fs, hyperVars, prepVars, trainVars, test_en_seq,
                   inferVars>>

\* lines 188-191
MainTestSeq ==
    /\ pc = "test_seq"
    /\ IF split.ts_en_text = <<>>
       THEN Raise("IndexError")
       ELSE /\ test_en_seq' = sents2sequences(en_tokenizer, <<split.ts_en_text[1]>>, FALSE,
                                              en_timesteps, "post")
            /\ bound' = bound \cup {"test_en", "test_en_seq"}
            /\ pc' = "infer"
            /\ UNCHANGED <<wrapVars, dataVars, trace, fs, hyperVars, prepVars, trainVars,
                           en_index2word, fr_index2word, inferVars>>

\* the locals of infer_nmt that the decode loop reads and writes
Locals ==
    [enc_outs |-> enc_outs, dec_state |-> dec_state, onehot |-> test_fr_onehot_seq,
     attention_weights |-> attention_weights, fr_text |-> fr_text]

\* lines 192-194 and 85-92: infer_nmt is entered and the encoder runs
InferStart ==
    /\ pc = "infer"
    /\ IF "fr_tokenizer" \in bound
       THEN LET enc == encoder_predict(weights,
                          [k \in 1..Len(test_en_seq[1]) |->
                              to_categorical(test_en_seq[1][k], en_vsize)])
            IN  /\ test_fr_onehot_seq' = encode_word(fr_tokenizer, SOS, fr_vsize)
                /\ enc_outs' = enc.enc_outs
                /\ dec_state' = enc.enc_last_state
                /\ enc_calls' = enc_calls + 1
                /\ attention_weights' = <<>>
                /\ fr_text' = <<>>
                /\ i' = 0
                /\ trace' = Append(trace, "infer_nmt")
                /\ pc' = "infer_loop"
                /\ UNCHANGED <<wrapVars, dataVars, bound, fs, hyperVars, prepVars, trainVars,
                               lookupVars, dec_log, result>>
       ELSE Raise("NameError")

\* lines 93-104: one pass of the decode loop
InferStep ==
    /\ pc = "infer_loop"
    /\ DecodeRange(i)
    /\ LET r == infer_step(weights, fr_tokenizer, fr_index2word, fr_vsize, Locals)
       IN  IF ~r.brk /\ "fr_index2word" \notin bound
           THEN Raise("NameError")
           ELSE /\ dec_log' = Append(dec_log, r.call)
                /\ enc_outs' = r.L.enc_outs
                /\ dec_state' = r.L.dec_state
                /\ test_fr_onehot_seq' = r.L.onehot
                /\ attention_weights' = r.L.attention_weights
                /\ fr_text' = r.L.fr_text
                /\ i' = IF r.brk THEN i ELSE i + 1
                /\ pc' = IF r.brk THEN "infer_break" ELSE "infer_loop"
                /\ UNCHANGED <<wrapVars, dataVars, bound, trace, fs, hyperVars, prepVars,
                               trainVars, lookupVars, enc_calls, result>>

\* line 106: the loop has ended, by break or by the end of its range
InferReturn ==
    /\ \/ pc = "infer_break"
       \/ pc = "infer_loop" /\ ~DecodeRange(i)
    /\ result' = [test_fr |-> fr_text, attn_weights |-> attention_weights]
    /\ bound' = bound \cup {"test_fr", "attn_weights"}
    /\ pc' = "plot"
    /\ UNCHANGED <<wrapVars, dataVars, trace, fs, hyperVars, prepVars, trainVars, lookupVars,
                   i, enc_outs, dec_state, test_fr_onehot_seq, attention_weights, fr_text,
                   enc_calls, dec_log>>

\* line 198
PlotAttention ==
    /\ pc = "plot"
    /\ LET r == plot_attention_weights(result.attn_weights, fs)
       IN  /\ fs' = r.fs
           /\ pc' = IF r.ok THEN "done" ELSE "AssertionError"
    /\ trace' = Append(trace, "plot_attention_weights")
    /\ UNCHANGED <<wrapVars, dataVars, bound, hyperVars, prepVars, trainVars, lookupVars,
                   inferVars>>

Next ==
    \/ MainGetData
    \/ MainFitEn
    \/ MainFitFr
    \/ MainPreprocess
    \/ MainVsize
    \/ MainDefineNmt
    \/ MainCallTrain
    \/ TrainEpochStart
    \/ TrainBatch
    \/ TrainEpochEnd
    \/ MainSave
    \/ MainIndex2Word
    \/ MainTestSeq
    \/ InferStart
    \/ InferStep
    \/ InferReturn
    \/ PlotAttention

Spec == Init /\ [][Next]_vars

(***************************************************************************)
(* Claims about the main script (Spec).                                    *)
(***************************************************************************)
StageOrder ==
    <<"get_data", "fit_on_texts", "fit_on_texts", "preprocess_data", "define_nmt", "train",
      "save", "infer_nmt", "plot_attention_weights">>

Ended == pc \in {"done", "AssertionError"}
InferReturned == pc \in {"plot", "done", "AssertionError"}

\* C1: the stages are called in the one fixed order, none skipped or repeated;
\* the model is saved only once every one of the n_epochs epochs has finished,
\* infer_nmt is called only after the save, and plot_attention_weights only
\* after infer_nmt has returned.
C1_LinearOrder ==
    /\ Len(trace) <= Len(StageOrder)
    /\ trace = SubSeq(StageOrder, 1, Len(trace))
    /\ Ended => trace = StageOrder
    /\ InSeq("save", trace) => /\ ep = n_epochs
                               /\ Len(reports) = n_epochs
                               /\ NMT_H5 \in fs
    /\ (pc = "train_epoch" \/ pc = "train_batch") => ~InSeq("save", trace)
    /\ InSeq("plot_attention_weights", trace) => "attn_weights" \in bound

C1_Witness ==
    /\ pc = "done"
    /\ n_epochs = MaxEpochs
    /\ trace = StageOrder
    /\ calls # <<>>

\* C2: the assertion of plot_attention_weights fails exactly when
\* attention_weights is empty, and then nothing is created on disk; otherwise
\* the heatmap is saved.  No other failure ends the main script, and the run
\* ends in the failed assertion exactly when the first decoded index is 0.
C2_AssertState ==
    /\ pc \notin {"NameError", "IndexError"}
    /\ pc = "AssertionError" => result.attn_weights = <<>>
    /\ pc = "done" => /\ result.attn_weights # <<>>
                      /\ RESULTS_DIR \in fs
                      /\ ATTENTION_PNG \in fs
    /\ Ended => (pc = "AssertionError" <=> dec_log[1].dec_ind = 0)

C2_OnlyAssertion ==
    /\ []C2_AssertState
    /\ [][pc' = "AssertionError" => fs' = fs]_vars

C2_Witness ==
    /\ pc = "AssertionError"
    /\ RESULTS_DIR \notin fs
    /\ Len(dec_log) = 1

PrefixNonZero(n) == \A k \in 1..n : dec_log[k].dec_ind # 0

\* C3: infer_nmt calls encoder_model.predict once and decoder_model.predict at
\* most 20 times; the loop runs on exactly while no step has decoded index 0 and
\* fewer than 20 steps are done; every pass that stays in the loop advances
\* its counter, which never passes 20, and the loop is left only to return.
C3_CallCounts ==
    /\ enc_calls = IF pc \in {"infer_loop", "infer_break"} \/ InferReturned THEN 1 ELSE 0
    /\ Len(dec_log) <= DecodeSteps
    /\ PrefixNonZero(Len(dec_log) - 1)
    /\ pc = "infer_loop" => Len(dec_log) = i /\ PrefixNonZero(i)
    /\ pc = "infer_break" => dec_log[Len(dec_log)].dec_ind = 0
    /\ InferReturned =>
          /\ Len(dec_log) >= 1
          /\ \/ dec_log[Len(dec_log)].dec_ind = 0
             \/ Len(dec_log) = DecodeSteps /\ PrefixNonZero(DecodeSteps)

C3_Terminates ==
    /\ []C3_CallCounts
    /\ [][(pc = "infer_loop" /\ pc' = "infer_loop")
              => (i' = i + 1 /\ i' <= DecodeSteps /\ Len(dec_log') = Len(dec_log) + 1)]_vars
    /\ [][(pc = "infer_loop" /\ pc' # "infer_loop") => pc' \in {"infer_break", "plot"}]_vars

\* 'eos' is decoded and the loop goes on to its 20th step
C3_Witness ==
    /\ InferReturned
    /\ Len(dec_log) = DecodeSteps
    /\ PrefixNonZero(DecodeSteps)
    /\ \E k \in 1..(DecodeSteps - 1) : fr_index2word[dec_log[k].dec_ind] = EOS

EncoderResult ==
    encoder_predict(weights,
        [k \in 1..Len(test_en_seq[1]) |-> to_categorical(test_en_seq[1][k], en_vsize)])

\* C4: the first decoder call gets the encoding of 'sos' and the encoder's last
\* state; every later call gets the one-hot encoding of the word whose index
\* the step before decoded, and the state the step before returned; enc_outs
\* is the encoder's output in every call.
C4_Autoregressive ==
    /\ Len(dec_log) >= 1 =>
          /\ dec_log[1].onehot = encode_word(fr_tokenizer, SOS, fr_vsize)
          /\ dec_log[1].onehot = <<to_categorical(fr_tokenizer[SOS], fr_vsize)>>
          /\ dec_log[1].dec_state_in = EncoderResult.enc_last_state
    /\ \A k \in 2..Len(dec_log) :
          /\ dec_log[k].onehot =
                encode_word(fr_tokenizer, fr_index2word[dec_log[k - 1].dec_ind], fr_vsize)
          /\ dec_log[k].onehot = <<to_categorical(dec_log[k - 1].dec_ind, fr_vsize)>>
          /\ dec_log[k].dec_state_in = dec_log[k - 1].dec_state_out
    /\ \A k \in 1..Len(dec_log) : dec_log[k].enc_outs = EncoderResult.enc_outs

C4_Witness ==
    /\ Len(dec_log) >= 3
    /\ dec_log[1].dec_ind # dec_log[2].dec_ind
    /\ dec_log[2].dec_state_in # dec_log[1].dec_state_in
    /\ dec_log[3].dec_state_in # dec_log[2].dec_state_in
    /\ dec_log[1].dec_ind = fr_tokenizer[UNK]

\* C8: attention_weights holds one entry per word of fr_text, in step order;
\* the k-th entry is the index and the attention of the k-th decoder call; no
\* entry has index 0, the call that decoded 0 is not recorded, and there are
\* at most 20 entries.
C8_AttentionLog ==
    /\ Len(attention_weights) <= DecodeSteps
    /\ Len(Split(fr_text)) = Len(attention_weights)
    /\ \A k \in 1..Len(attention_weights) :
          /\ attention_weights[k][1] # 0
          /\ Split(fr_text)[k] = fr_index2word[attention_weights[k][1]]
          /\ k <= Len(dec_log)
          /\ attention_weights[k] = <<dec_log[k].dec_ind, dec_log[k].attention>>
    /\ \A k \in 1..Len(dec_log) :
          IF dec_log[k].dec_ind = 0
          THEN Len(attention_weights) = k - 1
          ELSE Len(attention_weights) >= k
    /\ InferReturned => /\ result.attn_weights = attention_weights
                        /\ result.test_fr = fr_text

C8_Witness ==
    /\ InferReturned
    /\ dec_log[Len(dec_log)].dec_ind = 0
    /\ Len(attention_weights) >= 2
    /\ attention_weights[1] # attention_weights[2]

BatchesOf(e) == {k \in 1..Len(calls) : calls[k].op = "train_on_batch" /\ calls[k].ep = e}

TrainReturned == InSeq("save", trace) \/ pc = "save"

\* C6: every finished epoch has made floor(N / batch_size) train_on_batch
\* calls, N the rows of en_seq, and train as a whole n_epochs times as many.
C6_FloorBatches ==
    /\ \A e \in 0..(ep - 1) : Cardinality(BatchesOf(e)) = Len(en_seq) \div batch_size
    /\ TrainReturned =>
          Len(calls) \div 2 = n_epochs * (Len(en_seq) \div batch_size)

\* C7: within an epoch the batches start at 0, batch_size, 2*batch_size, .. in
\* that order, each takes exactly batch_size rows, the same rows of en_seq and
\* fr_seq, and no two overlap; train_on_batch comes before evaluate on the same
\* batch; losses holds one loss per batch of the running epoch only, and each
\* epoch's loss is reported once, after its last batch.
C7_BatchOrder ==
    /\ Len(calls) % 2 = 0
    /\ \A k \in 1..(Len(calls) \div 2) :
          LET t == calls[2 * k - 1]
              v == calls[2 * k]
          IN  /\ t.op = "train_on_batch" /\ v.op = "evaluate"
              /\ v.ep = t.ep /\ v.lo = t.lo /\ v.hi = t.hi
              /\ t.hi - t.lo = batch_size
              /\ t.en_rows = batch_size /\ t.fr_rows = batch_size
              /\ v.en_rows = batch_size /\ v.fr_rows = batch_size
              /\ IF k = 1 \/ calls[2 * k - 3].ep # t.ep
                 THEN t.lo = 0
                 ELSE t.lo = calls[2 * k - 3].lo + batch_size
              /\ k > 1 => calls[2 * k - 3].ep <= t.ep
    /\ \A j, k \in 1..Len(calls) :
          (j # k /\ calls[j].op = "train_on_batch" /\ calls[k].op = "train_on_batch"
               /\ calls[j].ep = calls[k].ep)
          => (calls[j].hi <= calls[k].lo \/ calls[k].hi <= calls[j].lo)
    /\ pc = "train_batch" => Len(losses) = Cardinality(BatchesOf(ep))
    /\ Len(reports) = ep
    /\ \A e \in 1..Len(reports) :
          /\ reports[e].epoch = e
          /\ Len(reports[e].losses) = Cardinality(BatchesOf(e - 1))

C7_Witness ==
    /\ TrainReturned
    /\ Len(reports) = 2
    /\ batch_size = 2
    /\ Cardinality(BatchesOf(1)) >= 2
    /\ Len(en_seq) % batch_size # 0

\* C10: en_vsize and fr_vsize are bound whenever train runs, fr_tokenizer and
\* fr_index2word whenever infer_nmt runs, and no read of the run finds its
\* name unbound.
C10_NamesBound ==
    /\ pc # "NameError"
    /\ pc \in {"call_train", "train_epoch", "train_batch"}
          => {"en_vsize", "fr_vsize"} \subseteq bound
    /\ pc \in {"infer", "infer_loop", "infer_break"}
          => {"fr_tokenizer", "fr_index2word"} \subseteq bound

C10_Witness ==
    /\ pc = "done"
    /\ calls # <<>>
    /\ attention_weights # <<>>

(***************************************************************************)
(* Claims about get_data (SpecGetData, SpecWrap).                          *)
(***************************************************************************)
SetOf(s) == {s[k] : k \in 1..Len(s)}

SameSplit(o1, o2) ==
    /\ o1.tr_en_text = o2.tr_en_text /\ o1.tr_fr_text = o2.tr_fr_text
    /\ o1.ts_en_text = o2.ts_en_text /\ o1.ts_fr_text = o2.ts_fr_text

\* C5: the train and test indices of a call are disjoint and are together
\* 0..N-1, each once; the train part has min(train_size, N) sentences; the
\* k-th English and French sentences of a part are the same corpus line; and
\* calls with the same random_seed return the same split.
C5_Partition ==
    \A c \in 1..Len(gd_calls) :
       LET o == gd_calls[c].out
           n == Len(en_corpus)
           tsz == gd_calls[c].train_size
       IN  /\ SetOf(o.train_inds) \cap SetOf(o.test_inds) = {}
           /\ SetOf(o.train_inds) \cup SetOf(o.test_inds) = 0..(n - 1)
           /\ Len(o.train_inds) + Len(o.test_inds) = n
           /\ Len(o.tr_en_text) = Min(tsz, n) /\ Len(o.tr_fr_text) = Min(tsz, n)
           /\ Len(o.ts_en_text) = n - Min(tsz, n) /\ Len(o.ts_fr_text) = n - Min(tsz, n)
           /\ \A k \in 1..Len(o.tr_en_text) :
                 /\ o.tr_en_text[k] = en_corpus[o.train_inds[k] + 1]
                 /\ o.tr_fr_text[k] = WrapSosEos(fr_corpus[o.train_inds[k] + 1])
           /\ \A k \in 1..Len(o.ts_en_text) :
                 /\ o.ts_en_text[k] = en_corpus[o.test_inds[k] + 1]
                 /\ o.ts_fr_text[k] = WrapSosEos(fr_corpus[o.test_inds[k] + 1])
           /\ \A d \in 1..Len(gd_calls) :
                 gd_calls[d].random_seed = gd_calls[c].random_seed =>
                    /\ gd_calls[d].out.train_inds \o gd_calls[d].out.test_inds
                          = o.train_inds \o o.test_inds
                    /\ gd_calls[d].train_size = tsz => SameSplit(gd_calls[d].out, o)

C5_Witness ==
    /\ Len(gd_calls) = 2
    /\ Len(en_corpus) = 3
    /\ rng # RngSeed(gd_calls[1].random_seed)
    /\ en_corpus[1] # en_corpus[2]
    /\ gd_calls[1].random_seed = gd_calls[2].random_seed
    /\ gd_calls[1].train_size = 2 /\ gd_calls[2].train_size = 2
    /\ gd_calls[1].out.train_inds # <<0, 1>>
    /\ gd_calls[1].out.tr_en_text # gd_calls[1].out.ts_en_text

\* C9: every wrapped sentence starts with the token 'sos' and ends with the
\* tokens 'eos' and '.', and the tokens between are the words of the input
\* without its final '.'.
C9_Markers ==
    w_done =>
       LET t == Split(w_out)
           n == Len(t)
       IN  /\ n >= 3
           /\ t[1] = SOS
           /\ t[n - 1] = EOS
           /\ t[n] = <<".">>
           /\ SubSeq(t, 2, n - 2)
                 = Split(IF EndsWithDot(w_sent) THEN DropLast(w_sent) ELSE w_sent)

====
